---- MODULE Spec2Model ----
(***************************************************************************)
(* MonacoEditorZoneWidget                                                  *)
(* (packages/monaco/src/browser/monaco-editor-zone-widget.ts).             *)
(*                                                                         *)
(* One widget instance attached to one host editor.  The host editor is    *)
(* the environment: it holds the registered view zones and overlay         *)
(* widgets, hands out zone ids, owns the layout info, the line height and  *)
(* the text model, and calls the widget back (layout change, onDomNodeTop, *)
(* onComputedHeight).  Another client of the same editor has a view zone   *)
(* and an overlay widget of its own registered throughout.  A second       *)
(* instance of the widget on the same editor acts in SpecTwo only; of it   *)
(* the model keeps what touches the editor (its zone descriptor and its    *)
(* disposables), not its DOM nodes, emitter and listener.                  *)
(*                                                                         *)
(* JavaScript numbers that come out of the height computation are exact    *)
(* rationals <<numerator, denominator>> in lowest terms; IEEE rounding is  *)
(* not modelled.  A style value `n + 'px'` is the record [px |-> n].       *)
(*                                                                         *)
(* show is modelled in four steps, cut where its top-level statements      *)
(* hand over to the editor (toHide.dispose, addZone, addOverlayWidget,     *)
(* the trailing sizing and reveal); the browser UI thread runs nothing     *)
(* else in between, so every other action waits for pc = "idle".           *)
(***************************************************************************)
EXTENDS Integers, Sequences, FiniteSets, TLC

\* ------------------------------------------------------------- bounds
\* heightInLines requested by show / layout: 1 .. MaxHeightInLines
MaxHeightInLines == 3
\* afterLineNumber given to show: -1 .. MaxLine
MaxLine == 2
\* line count of the editor's text model, when it has one
MaxLineCount == 2
\* the editor hands out zone ids 1 .. MaxZoneId
MaxZoneId == 2
\* with two instances on the editor, the second one's show still gets an id
\* up to MaxSecondZoneId
MaxSecondZoneId == 3

\* editor line heights (editor.getConfiguration().lineHeight), in px
LineHeights == {10}

\* editor layout infos (editor.getLayoutInfo()): a hidden editor without
\* minimap, the minimap on the left, the minimap on the right.  With a line
\* height of 10 their 80% limits are 0, 2 and 2.4 lines.
LayoutInfos ==
    { [width |-> 100, height |-> 0,  minimapWidth |-> 0,  minimapLeft |-> 0,
       verticalScrollbarWidth |-> 0],
      [width |-> 100, height |-> 25, minimapWidth |-> 20, minimapLeft |-> 0,
       verticalScrollbarWidth |-> 10],
      [width |-> 120, height |-> 30, minimapWidth |-> 20, minimapLeft |-> 90,
       verticalScrollbarWidth |-> 10] }

\* values the host passes to onDomNodeTop / onComputedHeight, in px
HostTops == {60}
HostHeights == {15}

\* ------------------------------------------------------------- values
Undefined == [undefined |-> TRUE]
Unset == [unset |-> TRUE]
Px(n) == [px |-> n]

Abs(x) == IF x < 0 THEN 0 - x ELSE x

RECURSIVE GCD(_, _)
GCD(a, b) == IF b = 0 THEN a ELSE GCD(b, a % b)

\* the rational n / d (d # 0) in lowest terms with a positive denominator
Num(n, d) ==
    LET g == GCD(Abs(n), Abs(d))
        s == IF d < 0 THEN 0 - 1 ELSE 1
    IN  <<(s * n) \div g, (s * d) \div g>>

FromInt(n) == <<n, 1>>
Div(a, b) == Num(a[1] * b[2], a[2] * b[1])
Mul(a, b) == Num(a[1] * b[1], a[2] * b[2])
Geq(a, b) == a[1] * b[2] >= b[1] * a[2]

\* the literal .8 of line 69
PointEight == Num(8, 10)

\* ------------------------------------------------------------- state
VARIABLES
    \* the host editor
    layoutInfo,      \* editor.getLayoutInfo()
    lineHeight,      \* editor.getConfiguration().lineHeight
    model,           \* editor.getModel(): Undefined or [lineCount |-> n]
    zones,           \* registered view zones, as the editor last laid them out
    overlays,        \* ids of the registered overlay widgets
    nextZoneId,      \* the id the next addZone returns
    layoutListener,  \* the widget's onDidLayoutChange listener is attached
    \* the widget
    viewZone,        \* this.viewZone
    toHide,          \* this.toHide, the disposables pushed and not yet disposed
    toDispose,       \* this.toDispose
    emitterDisposed, \* this.onDidLayoutChangeEmitter has been disposed
    zoneNode,        \* this.zoneNode.style
    containerNode,   \* this.containerNode.style
    pc,              \* where show stands; "idle" outside show
    shown,           \* arguments and locals of the show in progress
    \* what the most recent step did
    last,            \* the operation it belongs to
    calls,           \* the editor calls it made, in order
    fired,           \* the payloads it passed to onDidLayoutChangeEmitter.fire
    \* the second instance
    viewZone2,       \* its this.viewZone
    toHide2,         \* its this.toHide
    toDispose2       \* its this.toDispose

vars == <<layoutInfo, lineHeight, model, zones, overlays, nextZoneId,
          layoutListener, viewZone, toHide, toDispose, emitterDisposed,
          zoneNode, containerNode, pc, shown, last, calls, fired,
          viewZone2, toHide2, toDispose2>>

secondVars == <<viewZone2, toHide2, toDispose2>>

editorVars == <<layoutInfo, lineHeight, model>>

\* mutant: line 95 without the zone's id
OverlayIdShared(id) == <<"editor-zone-widget-", 0>>

\* ids of the overlay widgets: 'editor-zone-widget-' + id (line 95)
OverlayId(id) == <<"editor-zone-widget-", id>>
ForeignOverlay == <<"other-overlay-widget", 0>>

\* ------------------------------------------------------------- geometry
computeWidth(info) ==
    info.width - info.minimapWidth - info.verticalScrollbarWidth

\* mutant: line 147 without the test of the minimap's side
computeLeftAnySide(info) ==
    IF info.minimapWidth > 0 THEN info.minimapWidth ELSE 0

computeLeft(info) ==
    IF info.minimapWidth > 0 /\ info.minimapLeft = 0
    THEN info.minimapWidth
    ELSE 0

\* mutant: updateWidth also writes the editor's height to the zone node
updateWidthAndHeight(node, info) ==
    [node EXCEPT !.width = Px(computeWidth(info)),
                 !.left = Px(computeLeft(info)),
                 !.height = Px(FromInt(info.height))]

\* updateWidth: the zone node's width and left
updateWidth(node, info) ==
    [node EXCEPT !.width = Px(computeWidth(info)),
                 !.left = Px(computeLeft(info))]

\* lines 68-72 of show
maxHeightInLines(info, lh) == Mul(Div(FromInt(info.height), FromInt(lh)), PointEight)

\* mutant: the comparison of line 70 turned around
clampHeightInverted(heightInLines, max) ==
    IF Geq(max, heightInLines) THEN max ELSE heightInLines

clampHeight(heightInLines, max) ==
    IF Geq(heightInLines, max) THEN max ELSE heightInLines

\* line 110 of show
Min2(a, b) == IF a < b THEN a ELSE b
Max2(a, b) == IF a > b THEN a ELSE b
\* mutant: line 110 without Math.max
revealLineNumberNoFloor(lineCount, afterLineNumber) ==
    Min2(lineCount, afterLineNumber + 1)

\* mutant: line 110 without Math.min
revealLineNumberUnbounded(lineCount, afterLineNumber) ==
    Max2(1, afterLineNumber + 1)

revealLineNumber(lineCount, afterLineNumber) ==
    Min2(lineCount, Max2(1, afterLineNumber + 1))

\* ------------------------------------------------------------- disposables
\* What the disposables act on: the editor's registrations and the widget's
\* fields, with the editor calls made so far.
Bundle(cs) ==
    [zones |-> zones, overlays |-> overlays, viewZone |-> viewZone,
     toHide |-> toHide, layoutListener |-> layoutListener,
     emitterDisposed |-> emitterDisposed, calls |-> cs]

Call(fn, arg) == [fn |-> fn, arg |-> arg]
Range(seq) == {seq[i] : i \in DOMAIN seq}
Disposable(kind, id) == [kind |-> kind, id |-> id]

\* mutant: the disposable of line 90 forgets the removeZone request
RemoveZoneDisposableKeepsZone(id, w) == [w EXCEPT !.viewZone = Undefined]

\* lines 90-93: editor.changeViewZones(a => a.removeZone(id)); viewZone = undefined
RemoveZoneDisposable(id, w) ==
    [w EXCEPT !.zones = {z \in w.zones : z.id # id},
              !.viewZone = Undefined,
              !.calls = w.calls \o <<Call("changeViewZones", 0),
                                     Call("removeZone", id)>>]

\* line 101: editor.removeOverlayWidget(widget), widget.getId() the overlay's id
RemoveOverlayDisposable(id, w) ==
    [w EXCEPT !.overlays = w.overlays \ {OverlayId(id)},
              !.calls = Append(w.calls, Call("removeOverlayWidget", OverlayId(id)))]

RECURSIVE DisposeAll(_, _)
RECURSIVE RunDisposable(_, _)

\* DisposableCollection.dispose of this.toHide: its members are disposed last
\* pushed first, and the collection is empty afterwards and can be pushed to
\* again
DisposeToHide(w) == DisposeAll(w.toHide, [w EXCEPT !.toHide = <<>>])

\* the members of toHide (lines 90, 101) and of toDispose (lines 36, 37, 47)
RunDisposable(d, w) ==
    CASE d.kind = "removeZone" -> RemoveZoneDisposable(d.id, w)
      [] d.kind = "removeOverlayWidget" -> RemoveOverlayDisposable(d.id, w)
      [] d.kind = "toHide" -> DisposeToHide(w)
      [] d.kind = "emitter" -> [w EXCEPT !.emitterDisposed = TRUE]
      [] d.kind = "layoutListener" -> [w EXCEPT !.layoutListener = FALSE]

DisposeAll(ds, w) ==
    IF ds = <<>> THEN w
    ELSE DisposeAll(SubSeq(ds, 1, Len(ds) - 1), RunDisposable(ds[Len(ds)], w))

\* ------------------------------------------------------------- inputs
HeightRequests == {FromInt(h) : h \in 1 .. MaxHeightInLines}
Col(n) == [column |-> n]
\* the anchors given to show: afterLineNumber -1 .. MaxLine, afterColumn given
\* for the even lines and left out for the odd ones
Anchors ==
    {[afterLineNumber |-> a,
      afterColumn |-> IF a % 2 = 0 THEN Col(1) ELSE Undefined]
        : a \in (0 - 1) .. MaxLine}
Models == {Undefined, [lineCount |-> MaxLineCount]}

\* what the editor keeps of a zone it is given: its owner and its layout
Registered(zone, owner) ==
    [id |-> zone.id, owner |-> owner,
     afterLineNumber |-> zone.afterLineNumber,
     afterColumn |-> zone.afterColumn,
     heightInLines |-> zone.heightInLines]

\* the other client's zone, registered before the widget is constructed
OtherZone ==
    Registered([id |-> 0, afterLineNumber |-> 0, afterColumn |-> Undefined,
                heightInLines |-> FromInt(1)], "other")

WidgetZones == {z \in zones : z.owner = "widget"}
SecondZones == {z \in zones : z.owner = "second"}
WidgetOverlays == {o \in overlays : o[1] = "editor-zone-widget-"}

\* ------------------------------------------------------------- Init
\* the state after the constructor (lines 25-48)
Init ==
    /\ layoutInfo \in LayoutInfos
    /\ lineHeight \in LineHeights
    /\ model \in Models
    /\ zones = {OtherZone}
    /\ overlays = {ForeignOverlay}
    /\ nextZoneId = 1
    /\ layoutListener = TRUE
    /\ viewZone = Undefined
    /\ toHide = <<>>
    /\ toDispose = <<Disposable("emitter", 0), Disposable("toHide", 0),
                     Disposable("layoutListener", 0)>>
    /\ emitterDisposed = FALSE
    /\ zoneNode = updateWidth([top |-> Unset, height |-> Unset,
                               width |-> Unset, left |-> Unset], layoutInfo)
    /\ containerNode = [top |-> Unset, height |-> Unset, overflow |-> Unset]
    /\ pc = "idle"
    /\ shown = Undefined
    /\ last = "constructor"
    /\ calls = <<>>
    /\ fired = <<>>
    /\ viewZone2 = Undefined
    /\ toHide2 = <<>>
    /\ toDispose2 = toDispose

\* ------------------------------------------------------------- show
\* lines 68-73: the height clamp and this.toHide.dispose()
Show(afterLineNumber, afterColumn, heightInLines) ==
    /\ pc = "idle"
    /\ nextZoneId <= MaxZoneId
    /\ LET max == maxHeightInLines(layoutInfo, lineHeight)
           w == DisposeToHide(Bundle(<<>>))
       IN  /\ shown' = [afterLineNumber |-> afterLineNumber,
                        afterColumn |-> afterColumn,
                        requested |-> heightInLines,
                        heightInLines |-> clampHeight(heightInLines, max),
                        lineHeight |-> lineHeight]
           /\ zones' = w.zones
           /\ overlays' = w.overlays
           /\ viewZone' = w.viewZone
           /\ toHide' = w.toHide
           /\ calls' = w.calls
    /\ pc' = "addZone"
    /\ last' = "show"
    /\ fired' = <<>>
    /\ UNCHANGED <<editorVars, nextZoneId, layoutListener, toDispose,
                   emitterDisposed, zoneNode, containerNode>>
    /\ UNCHANGED secondVars

\* the zone object of lines 78-88, with the id addZone returned
NewZone(id) ==
    [afterLineNumber |-> shown.afterLineNumber,
     afterColumn |-> shown.afterColumn,
     heightInLines |-> shown.heightInLines,
     id |-> id]

\* the disposables show pushes to toHide for the zone (line 90) and for the
\* overlay widget (line 101)
ZoneDisposables(id) == <<Disposable("removeZone", id)>>
\* mutant: line 101 left out, nothing removes the overlay widget
OverlayDisposablesMissing(id) == <<>>
OverlayDisposables(id) == <<Disposable("removeOverlayWidget", id)>>

\* lines 74-93: inside changeViewZones, up to the first push
ShowAddZone ==
    /\ pc = "addZone"
    /\ LET id == nextZoneId
       IN  /\ zoneNode' = [zoneNode EXCEPT !.top = Px(0 - 1000)]
           /\ zones' = zones \cup {Registered(NewZone(id), "widget")}
           /\ nextZoneId' = nextZoneId + 1
           /\ viewZone' = NewZone(id)
           /\ toHide' = toHide \o ZoneDisposables(id)
           /\ calls' = <<Call("changeViewZones", 0), Call("addZone", id)>>
    /\ pc' = "addOverlay"
    /\ fired' = <<>>
    /\ UNCHANGED <<editorVars, overlays, layoutListener, toDispose,
                   emitterDisposed, containerNode, shown, last>>
    /\ UNCHANGED secondVars

\* lines 94-102: the overlay widget
ShowAddOverlay ==
    /\ pc = "addOverlay"
    /\ LET id == viewZone.id
       IN  /\ overlays' = overlays \cup {OverlayId(id)}
           /\ toHide' = toHide \o OverlayDisposables(id)
           /\ calls' = <<Call("addOverlayWidget", OverlayId(id))>>
    /\ pc' = "finish"
    /\ fired' = <<>>
    /\ UNCHANGED <<editorVars, zones, nextZoneId, layoutListener, viewZone,
                   toDispose, emitterDisposed, zoneNode, containerNode,
                   shown, last>>
    /\ UNCHANGED secondVars

\* updateContainerHeight (lines 130-135): the container's height and the event
updateContainerHeight(node, zoneHeight) == [node EXCEPT !.height = Px(zoneHeight)]
\* mutant: line 133 takes the editor's whole width
LayoutEventFullWidth(zoneHeight) == [height |-> zoneHeight, width |-> layoutInfo.width]
LayoutEvent(zoneHeight) == [height |-> zoneHeight, width |-> computeWidth(layoutInfo)]

\* lines 108-112: the reveal request, when the editor has a model
RevealCalls(afterLineNumber) ==
    IF model # Undefined
    THEN <<Call("revealLine",
                [lineNumber |-> revealLineNumber(model.lineCount, afterLineNumber),
                 scrollType |-> "Smooth"])>>
    ELSE <<>>

\* lines 104-112: container sizing, the layout event, the reveal
ShowFinish ==
    /\ pc = "finish"
    /\ LET height == Mul(shown.heightInLines, FromInt(shown.lineHeight))
       IN  /\ containerNode' = updateContainerHeight(
                  [containerNode EXCEPT !.top = Px(0), !.overflow = "hidden"],
                  height)
           /\ fired' = <<LayoutEvent(height)>>
    /\ calls' = RevealCalls(shown.afterLineNumber)
    /\ pc' = "idle"
    /\ shown' = Undefined
    /\ UNCHANGED <<editorVars, zones, overlays, nextZoneId, layoutListener,
                   viewZone, toHide, toDispose, emitterDisposed, zoneNode, last>>
    /\ UNCHANGED secondVars

\* lines 54-56: the options getter
options == viewZone

\* ------------------------------------------------------------- hide, dispose
\* lines 58-60
Hide ==
    /\ pc = "idle"
    /\ LET w == DisposeToHide(Bundle(<<>>))
       IN  /\ zones' = w.zones
           /\ overlays' = w.overlays
           /\ viewZone' = w.viewZone
           /\ toHide' = w.toHide
           /\ calls' = w.calls
    /\ last' = "hide"
    /\ fired' = <<>>
    /\ UNCHANGED <<editorVars, nextZoneId, layoutListener, toDispose,
                   emitterDisposed, zoneNode, containerNode, pc, shown>>
    /\ UNCHANGED secondVars

\* lines 50-52: DisposableCollection.dispose of this.toDispose (lines 35-38, 47)
Dispose ==
    /\ pc = "idle"
    /\ LET w == DisposeAll(toDispose, Bundle(<<>>))
       IN  /\ zones' = w.zones
           /\ overlays' = w.overlays
           /\ viewZone' = w.viewZone
           /\ toHide' = w.toHide
           /\ layoutListener' = w.layoutListener
           /\ emitterDisposed' = w.emitterDisposed
           /\ calls' = w.calls
    /\ toDispose' = <<>>
    /\ last' = "dispose"
    /\ fired' = <<>>
    /\ UNCHANGED <<editorVars, nextZoneId, zoneNode, containerNode, pc, shown>>
    /\ UNCHANGED secondVars

\* ------------------------------------------------------------- layout
\* the editor lays zone id out again from the zone object it was given
layoutZone(zs, zone) ==
    {IF z.id = zone.id THEN [z EXCEPT !.heightInLines = zone.heightInLines] ELSE z
        : z \in zs}

\* mutant: line 116 without the comparison of the heights
layoutNeededAlways(vz, heightInLines) == vz # Undefined

\* the condition of line 116
layoutNeeded(vz, heightInLines) ==
    vz # Undefined /\ vz.heightInLines # heightInLines

\* mutant: line 119 left out, the editor is not asked to lay the zone out
layoutCallsMissing(id) == <<>>

\* lines 118-119: editor.changeViewZones(accessor => accessor.layoutZone(id))
layoutCalls(id) == <<Call("changeViewZones", 0), Call("layoutZone", id)>>

\* lines 115-121
Layout(heightInLines) ==
    /\ pc = "idle"
    /\ IF layoutNeeded(viewZone, heightInLines)
       THEN /\ viewZone' = [viewZone EXCEPT !.heightInLines = heightInLines]
            /\ calls' = layoutCalls(viewZone.id)
            /\ zones' = IF \E c \in Range(calls') : c.fn = "layoutZone"
                         THEN layoutZone(zones, viewZone')
                         ELSE zones
       ELSE /\ UNCHANGED <<viewZone, zones>>
            /\ calls' = <<>>
    /\ last' = "layout"
    /\ fired' = <<>>
    /\ UNCHANGED <<editorVars, overlays, nextZoneId, layoutListener, toHide,
                   toDispose, emitterDisposed, zoneNode, containerNode, pc, shown>>
    /\ UNCHANGED secondVars

\* ------------------------------------------------------------- host callbacks
\* the editor changes its layout and notifies its listeners (line 47)
EditorLayoutChange(info) ==
    /\ pc = "idle"
    /\ info # layoutInfo
    /\ layoutInfo' = info
    /\ zoneNode' = IF layoutListener THEN updateWidth(zoneNode, info) ELSE zoneNode
    /\ last' = "editorLayoutChange"
    /\ calls' = <<>>
    /\ fired' = <<>>
    /\ UNCHANGED <<lineHeight, model, zones, overlays, nextZoneId, layoutListener,
                   viewZone, toHide, toDispose, emitterDisposed, containerNode,
                   pc, shown>>
    /\ UNCHANGED secondVars

\* onDomNodeTop of the registered zone (line 83, updateTop lines 123-125)
OnDomNodeTop(top) ==
    /\ pc = "idle"
    /\ WidgetZones # {}
    /\ zoneNode' = [zoneNode EXCEPT !.top = Px(top)]
    /\ last' = "onDomNodeTop"
    /\ calls' = <<>>
    /\ fired' = <<>>
    /\ UNCHANGED <<editorVars, zones, overlays, nextZoneId, layoutListener,
                   viewZone, toHide, toDispose, emitterDisposed, containerNode,
                   pc, shown>>
    /\ UNCHANGED secondVars

\* onComputedHeight of the registered zone (line 84, updateHeight lines 126-129)
OnComputedHeight(zoneHeight) ==
    /\ pc = "idle"
    /\ WidgetZones # {}
    /\ zoneNode' = [zoneNode EXCEPT !.height = Px(zoneHeight)]
    /\ containerNode' = updateContainerHeight(containerNode, zoneHeight)
    /\ fired' = <<LayoutEvent(zoneHeight)>>
    /\ last' = "onComputedHeight"
    /\ calls' = <<>>
    /\ UNCHANGED <<editorVars, zones, overlays, nextZoneId, layoutListener,
                   viewZone, toHide, toDispose, emitterDisposed, pc, shown>>
    /\ UNCHANGED secondVars

\* ------------------------------------------------------------- specification
Next ==
    \/ \E a \in Anchors, h \in HeightRequests :
          Show(a.afterLineNumber, a.afterColumn, h)
    \/ ShowAddZone
    \/ ShowAddOverlay
    \/ ShowFinish
    \/ Hide
    \/ Dispose
    \/ \E h \in HeightRequests : Layout(h)
    \/ \E info \in LayoutInfos : EditorLayoutChange(info)
    \/ \E top \in HostTops : OnDomNodeTop(top)
    \/ \E z \in HostHeights : OnComputedHeight(FromInt(z))

Spec == Init /\ [][Next]_vars

\* the widget under a fixed editor layout: no editor layout change happens
NextFixedLayout ==
    \/ \E a \in Anchors, h \in HeightRequests :
          Show(a.afterLineNumber, a.afterColumn, h)
    \/ ShowAddZone
    \/ ShowAddOverlay
    \/ ShowFinish
    \/ Hide
    \/ Dispose
    \/ \E h \in HeightRequests : Layout(h)
    \/ \E top \in HostTops : OnDomNodeTop(top)
    \/ \E z \in HostHeights : OnComputedHeight(FromInt(z))

SpecFixedLayout == Init /\ [][NextFixedLayout]_vars

\* ------------------------------------------------------------- second instance
\* what the second instance's disposables act on; its listener and emitter
\* are not kept
Bundle2(cs) ==
    [zones |-> zones, overlays |-> overlays, viewZone |-> viewZone2,
     toHide |-> toHide2, layoutListener |-> FALSE,
     emitterDisposed |-> TRUE, calls |-> cs]

\* show of the second instance (lines 63-102), in one step
Show2(afterLineNumber, afterColumn, heightInLines) ==
    /\ pc = "idle"
    /\ nextZoneId <= MaxSecondZoneId
    /\ LET max == maxHeightInLines(layoutInfo, lineHeight)
           w == DisposeToHide(Bundle2(<<>>))
           id == nextZoneId
           zone == [afterLineNumber |-> afterLineNumber,
                    afterColumn |-> afterColumn,
                    heightInLines |-> clampHeight(heightInLines, max),
                    id |-> id]
       IN  /\ zones' = w.zones \cup {Registered(zone, "second")}
           /\ overlays' = w.overlays \cup {OverlayId(id)}
           /\ viewZone2' = zone
           /\ toHide2' = w.toHide \o ZoneDisposables(id) \o OverlayDisposables(id)
           /\ calls' = w.calls \o <<Call("changeViewZones", 0), Call("addZone", id),
                                     Call("addOverlayWidget", OverlayId(id))>>
                               \o RevealCalls(afterLineNumber)
    /\ nextZoneId' = nextZoneId + 1
    /\ last' = "show2"
    /\ fired' = <<>>
    /\ UNCHANGED <<editorVars, layoutListener, viewZone, toHide, toDispose,
                   emitterDisposed, zoneNode, containerNode, pc, shown,
                   toDispose2>>

\* hide of the second instance (lines 58-60)
Hide2 ==
    /\ pc = "idle"
    /\ LET w == DisposeToHide(Bundle2(<<>>))
       IN  /\ zones' = w.zones
           /\ overlays' = w.overlays
           /\ viewZone2' = w.viewZone
           /\ toHide2' = w.toHide
           /\ calls' = w.calls
    /\ last' = "hide2"
    /\ fired' = <<>>
    /\ UNCHANGED <<editorVars, nextZoneId, layoutListener, viewZone, toHide,
                   toDispose, emitterDisposed, zoneNode, containerNode, pc,
                   shown, toDispose2>>

\* dispose of the second instance (lines 50-52)
Dispose2 ==
    /\ pc = "idle"
    /\ LET w == DisposeAll(toDispose2, Bundle2(<<>>))
       IN  /\ zones' = w.zones
           /\ overlays' = w.overlays
           /\ viewZone2' = w.viewZone
           /\ toHide2' = w.toHide
           /\ calls' = w.calls
    /\ toDispose2' = <<>>
    /\ last' = "dispose2"
    /\ fired' = <<>>
    /\ UNCHANGED <<editorVars, nextZoneId, layoutListener, viewZone, toHide,
                   toDispose, emitterDisposed, zoneNode, containerNode, pc,
                   shown>>

\* layout of the second instance (lines 115-121)
Layout2(heightInLines) ==
    /\ pc = "idle"
    /\ IF layoutNeeded(viewZone2, heightInLines)
       THEN /\ viewZone2' = [viewZone2 EXCEPT !.heightInLines = heightInLines]
            /\ calls' = layoutCalls(viewZone2.id)
            /\ zones' = IF \E c \in Range(calls') : c.fn = "layoutZone"
                         THEN layoutZone(zones, viewZone2')
                         ELSE zones
       ELSE /\ UNCHANGED <<viewZone2, zones>>
            /\ calls' = <<>>
    /\ last' = "layout2"
    /\ fired' = <<>>
    /\ UNCHANGED <<editorVars, overlays, nextZoneId, layoutListener, viewZone,
                   toHide, toDispose, emitterDisposed, zoneNode, containerNode,
                   pc, shown, toHide2, toDispose2>>

\* both instances on one editor, their show, hide, layout and dispose calls
\* in any order
NextTwo ==
    \/ \E h \in HeightRequests : Show(1, Undefined, h)
    \/ ShowAddZone
    \/ ShowAddOverlay
    \/ ShowFinish
    \/ Hide
    \/ Dispose
    \/ \E h \in HeightRequests : Layout(h)
    \/ \E h \in HeightRequests : Show2(0, Col(1), h)
    \/ Hide2
    \/ Dispose2
    \/ \E h \in HeightRequests : Layout2(h)

SpecTwo == Init /\ [][NextTwo]_vars

\* ------------------------------------------------------------- properties
CallsOf(fn) == SelectSeq(calls, LAMBDA c : c.fn = fn)
ZoneIds(zs) == {z.id : z \in zs}

\* C1: the zone show registers has heightInLines = min(requested,
\* 0.8 * layoutHeight / lineHeight): its height in px is at most 80% of the
\* layout height, a request below the limit is registered unchanged, and a
\* request at or above it is registered as the limit.
C1_ShowClampsHeight ==
    pc \in {"addOverlay", "finish"} =>
        /\ Cardinality(WidgetZones) = 1
        /\ \A z \in WidgetZones :
            LET h == z.heightInLines
                r == shown.requested
                H == layoutInfo.height
                L == lineHeight
            IN  /\ h[2] > 0
                /\ 5 * L * h[1] <= 4 * H * h[2]
                /\ (5 * L * r[1] < 4 * H * r[2] => h = r)
                /\ (5 * L * r[1] >= 4 * H * r[2] => 5 * L * h[1] = 4 * H * h[2])

\* a request of 3 lines registered as 2.4 lines (layout height 30, line height 10)
C1_Witness ==
    /\ pc = "finish"
    /\ shown.requested = <<3, 1>>
    /\ \E z \in WidgetZones : z.heightInLines = <<12, 5>>

\* C2: after hide the editor holds no view zone and no overlay widget of the
\* widget, its zones and overlay widgets are those registered before the
\* first show, and the active zone descriptor is undefined.
C2_HideReverts ==
    last = "hide" =>
        /\ WidgetZones = {}
        /\ WidgetOverlays = {}
        /\ zones = {OtherZone}
        /\ overlays = {ForeignOverlay}
        /\ viewZone = Undefined

\* hide on a shown widget: it removed the overlay widget and the zone
C2_Witness ==
    /\ last = "hide"
    /\ Len(CallsOf("removeZone")) = 1
    /\ Len(CallsOf("removeOverlayWidget")) = 1

\* C3: the editor never holds more than one view zone or more than one
\* overlay widget of the widget, also between the steps of show; the active
\* zone descriptor is defined exactly when the zone is registered and carries
\* its id; show has removed the previous zone and overlay before it adds the
\* new ones.
C3_SingleZone ==
    /\ Cardinality(WidgetZones) <= 1
    /\ Cardinality(WidgetOverlays) <= 1
    /\ (viewZone # Undefined <=> WidgetZones # {})
    /\ (viewZone # Undefined => ZoneIds(WidgetZones) = {viewZone.id})
    /\ (pc = "addZone" => WidgetZones = {} /\ WidgetOverlays = {})
    /\ (pc = "addOverlay" => WidgetOverlays = {})
    /\ WidgetOverlays \subseteq {OverlayId(id) : id \in ZoneIds(WidgetZones)}

\* show on a shown widget, after the old registrations went and before the new
C3_Witness ==
    /\ pc = "addZone"
    /\ Len(CallsOf("removeZone")) = 1
    /\ Len(CallsOf("removeOverlayWidget")) = 1

\* C4: layout(h) with h the active zone's heightInLines, or without an active
\* zone, calls nothing on the editor, fires no event and leaves the zone
\* descriptor, the registrations and the DOM sizes as they are.
C4_LayoutNoOp ==
    [][\A h \in HeightRequests :
          (Layout(h) /\ (viewZone = Undefined \/ viewZone.heightInLines = h)) =>
              /\ calls' = <<>>
              /\ fired' = <<>>
              /\ UNCHANGED <<viewZone, zones, overlays, toHide, zoneNode,
                             containerNode>>]_vars

\* layout with the height the shown zone already has
C4_Witness ==
    /\ last = "layout"
    /\ calls = <<>>
    /\ viewZone # Undefined
    /\ WidgetZones # {}

\* C5: layout(h) on a shown widget with another height sets the active zone's
\* heightInLines to h and asks the editor once to lay out the registered
\* zone's id; id, anchor and the registered zones and overlays stay.
C5_LayoutUpdates ==
    [][\A h \in HeightRequests :
          (Layout(h) /\ viewZone # Undefined /\ viewZone.heightInLines # h) =>
              /\ viewZone' # Undefined
              /\ viewZone'.heightInLines = h
              /\ Len(SelectSeq(calls', LAMBDA c : c.fn = "layoutZone")) = 1
              /\ \A c \in Range(calls') :
                    c.fn = "layoutZone" => c.arg = viewZone.id
              /\ viewZone.id \in ZoneIds(WidgetZones)
              /\ \A z \in WidgetZones' : z.heightInLines = h
              /\ viewZone'.id = viewZone.id
              /\ viewZone'.afterLineNumber = viewZone.afterLineNumber
              /\ viewZone'.afterColumn = viewZone.afterColumn
              /\ ZoneIds(zones') = ZoneIds(zones)
              /\ zones' \ WidgetZones' = zones \ WidgetZones
              /\ overlays' = overlays]_vars

\* layout has changed the height of the shown zone
C5_Witness ==
    /\ last = "layout"
    /\ Len(CallsOf("layoutZone")) = 1
    /\ viewZone # Undefined

\* C6: after dispose no view zone and no overlay widget of the widget is
\* registered, the active zone descriptor is undefined, the listener on the
\* editor's layout changes is removed and the emitter is disposed.
C6_DisposeReleasesAll ==
    last = "dispose" =>
        /\ WidgetZones = {}
        /\ WidgetOverlays = {}
        /\ viewZone = Undefined
        /\ ~layoutListener
        /\ emitterDisposed

\* C7: while the listener is attached the zone node's width is the layout
\* info's width less minimap and vertical scrollbar, its left is the minimap
\* width when the minimap is on the left and 0 otherwise, for the current
\* layout info, and left + width is at most the editor's width.
C7_ZoneNodeGeometry ==
    layoutListener =>
        LET i == layoutInfo
            left == IF i.minimapWidth > 0 /\ i.minimapLeft = 0
                    THEN i.minimapWidth ELSE 0
            width == i.width - i.minimapWidth - i.verticalScrollbarWidth
        IN  /\ zoneNode.width = Px(width)
            /\ zoneNode.left = Px(left)
            /\ zoneNode.left.px + zoneNode.width.px <= i.width

\* a layout change to the minimap on the right reached the listener
C7_Witness ==
    /\ last = "editorLayoutChange"
    /\ layoutListener
    /\ layoutInfo.minimapWidth > 0
    /\ layoutInfo.minimapLeft > 0
    /\ zoneNode.left = Px(0)

\* the reveal requests of a show, seen in the state in which it returns
ShowReturned == last = "show" /\ pc = "idle"
RevealRequest(line) ==
    Call("revealLine", [lineNumber |-> line, scrollType |-> "Smooth"])

\* C8 as stated: with a model, show makes one smooth reveal request, for the
\* anchor line afterLineNumber.
C8_RevealsAnchorLine ==
    (ShowReturned /\ model # Undefined) =>
        calls = <<RevealRequest(viewZone.afterLineNumber)>>

\* C8, amended: with a model, show makes one smooth reveal request, for the
\* line after the anchor, afterLineNumber + 1, brought into 1 .. lineCount;
\* without a model it makes none.
C8_RevealsLineAfterAnchor ==
    /\ (ShowReturned /\ model # Undefined) =>
          LET a == viewZone.afterLineNumber + 1
              n == model.lineCount
              line == IF a < 1 THEN 1 ELSE IF a > n THEN n ELSE a
          IN  calls = <<RevealRequest(line)>>
    /\ (ShowReturned /\ model = Undefined) => calls = <<>>
    /\ (last = "show" /\ pc # "idle") => CallsOf("revealLine") = <<>>

\* show after the last line of the model: the reveal stays on the last line
C8_Witness ==
    /\ ShowReturned
    /\ model # Undefined
    /\ viewZone.afterLineNumber = model.lineCount
    /\ Len(CallsOf("revealLine")) = 1

\* the anchor of a zone descriptor
Anchor(z) == <<z.afterLineNumber, z.afterColumn>>

\* C9: options is undefined exactly when the widget has no zone registered,
\* so after construction, hide and dispose; while shown it gives the
\* afterLineNumber and afterColumn of the most recent show, which only
\* show's addZone step sets: layout, editor layout changes and the host's
\* geometry callbacks leave the anchor alone.
C9_Options ==
    /\ [](/\ (options = Undefined <=> WidgetZones = {})
          /\ (last \in {"constructor", "hide", "dispose"} => options = Undefined)
          /\ (pc \in {"addOverlay", "finish"} =>
                /\ options # Undefined
                /\ options.afterLineNumber = shown.afterLineNumber
                /\ options.afterColumn = shown.afterColumn))
    /\ [][(options' # Undefined /\ pc # "addZone") =>
             (options # Undefined /\ Anchor(options') = Anchor(options))]_vars
    /\ [][(last' \in {"layout", "editorLayoutChange", "onDomNodeTop",
                      "onComputedHeight"}) =>
             ((options' = Undefined <=> options = Undefined)
              /\ (options # Undefined => Anchor(options') = Anchor(options)))]_vars

\* C10: show fires one layout event, in its last step, with height =
\* clamped heightInLines * lineHeight and width = the layout info's width less
\* minimap and vertical scrollbar; onComputedHeight(z) sets zone node and
\* container heights to z and fires one event of height z; every event fired
\* carries the container's height.
C10_LayoutEvents ==
    /\ ShowReturned =>
          /\ Len(fired) = 1
          /\ LET e == fired[1]
                 h == viewZone.heightInLines
             IN  /\ e.height[2] > 0
                 /\ e.height[1] * h[2] = h[1] * lineHeight * e.height[2]
                 /\ e.width = layoutInfo.width - layoutInfo.minimapWidth
                                - layoutInfo.verticalScrollbarWidth
    /\ (last = "show" /\ pc # "idle") => fired = <<>>
    /\ last = "onComputedHeight" =>
          /\ Len(fired) = 1
          /\ fired[1].height \in {FromInt(z) : z \in HostHeights}
          /\ zoneNode.height = Px(fired[1].height)
          /\ fired[1].width = layoutInfo.width - layoutInfo.minimapWidth
                                - layoutInfo.verticalScrollbarWidth
    /\ \A i \in DOMAIN fired : containerNode.height = Px(fired[i].height)
    /\ last \notin {"show", "onComputedHeight"} => fired = <<>>

\* a show clamped to 2.4 lines fired the event of height 24
C10_Witness ==
    /\ ShowReturned
    /\ viewZone.heightInLines = <<12, 5>>
    /\ fired = <<[height |-> <<24, 1>>, width |-> 90]>>

\* C11: under a fixed editor layout height and line height, whenever the
\* widget has an active zone its heightInLines is at most 80% of the visible
\* editor height in lines, after show and after layout alike.
C11_LayoutKeepsLimit ==
    viewZone # Undefined =>
        LET h == viewZone.heightInLines
        IN  5 * lineHeight * h[1] <= 4 * layoutInfo.height * h[2]

\* C12: with a model, show's reveal request names min(lineCount,
\* max(1, afterLineNumber + 1)), a line in 1 .. lineCount whatever the
\* anchor; without a model show makes no reveal request and still registers
\* the zone and the overlay widget.
C12_RevealInRange ==
    /\ (ShowReturned /\ model # Undefined) =>
          /\ Len(CallsOf("revealLine")) = 1
          /\ \A c \in Range(CallsOf("revealLine")) :
                /\ c.arg.lineNumber \in 1 .. model.lineCount
                /\ c.arg.lineNumber =
                      Min2(model.lineCount, Max2(1, viewZone.afterLineNumber + 1))
    /\ (last = "show" /\ model = Undefined) => CallsOf("revealLine") = <<>>
    /\ (ShowReturned /\ model = Undefined) =>
          /\ Cardinality(WidgetZones) = 1
          /\ WidgetOverlays = {OverlayId(viewZone.id)}

\* show with a negative afterLineNumber revealed line 1
C12_Witness ==
    /\ ShowReturned
    /\ model # Undefined
    /\ viewZone.afterLineNumber < 0
    /\ calls = <<RevealRequest(1)>>

\* the calls of a step that take something away from the editor
Removals(cs) ==
    SelectSeq(cs, LAMBDA c : c.fn \in {"removeZone", "removeOverlayWidget"})

\* C13: every removeZone request names a zone of the widget that is
\* registered when the step begins, every removeOverlayWidget request an
\* overlay widget that is registered, and no step removes the same thing
\* twice; hide on a hidden widget, hide after hide, hide after dispose and
\* dispose after dispose call nothing on the editor and change nothing.
C13_RemovesOnlyRegistered ==
    /\ [][/\ \A c \in Range(calls') :
               /\ c.fn = "removeZone" => c.arg \in ZoneIds(WidgetZones)
               /\ c.fn = "removeOverlayWidget" => c.arg \in WidgetOverlays
          /\ \A i, j \in DOMAIN Removals(calls') :
               Removals(calls')[i] = Removals(calls')[j] => i = j]_vars
    /\ [][(last' = "hide" /\ (viewZone = Undefined \/ last \in {"hide", "dispose"})) =>
             (calls' = <<>> /\ UNCHANGED <<zones, overlays, viewZone, toHide,
                                           toDispose, layoutListener,
                                           emitterDisposed>>)]_vars
    /\ [][(last' = "dispose" /\ last = "dispose") =>
             (calls' = <<>> /\ UNCHANGED <<zones, overlays, viewZone, toHide,
                                           toDispose, layoutListener,
                                           emitterDisposed>>)]_vars

\* C14: once dispose has been called the editor holds no view zone and no
\* overlay widget of the widget and the active zone descriptor is undefined,
\* whatever is called afterwards.
C14_DisposalIsFinal ==
    toDispose = <<>> =>
        /\ WidgetZones = {}
        /\ WidgetOverlays = {}
        /\ viewZone = Undefined

\* C15: an editor layout change fires no layout event, calls nothing on the
\* editor and leaves the zone descriptor, the registrations, the zone node's
\* top and height and the container node as they are; once the widget is
\* disposed it leaves the zone node's width and left as well.
C15_LayoutChangeFrame ==
    [][last' = "editorLayoutChange" =>
          /\ fired' = <<>>
          /\ calls' = <<>>
          /\ UNCHANGED <<viewZone, zones, overlays, toHide, containerNode>>
          /\ zoneNode'.top = zoneNode.top
          /\ zoneNode'.height = zoneNode.height
          /\ (toDispose = <<>> => zoneNode' = zoneNode)]_vars

\* a layout change after dispose: the zone node keeps the old width
C15_Witness ==
    /\ last = "editorLayoutChange"
    /\ toDispose = <<>>
    /\ zoneNode.width # Px(layoutInfo.width - layoutInfo.minimapWidth
                            - layoutInfo.verticalScrollbarWidth)

\* whether the first instance's overlay widget has been added
OverlayAdded == pc \in {"finish", "idle"}
RemovedIds(cs) ==
    {c.arg : c \in {d \in Range(cs) : d.fn = "removeZone"}}
        \cup {id \in 1 .. nextZoneId :
                \E c \in Range(cs) :
                    c.fn = "removeOverlayWidget" /\ c.arg = OverlayId(id)}

\* C16: with two instances on one editor, in any order of their show, hide,
\* layout and dispose calls, each shown instance has its own zone and its own
\* overlay widget registered, the overlay ids of two shown instances differ,
\* and a step of one instance removes nothing of the other and leaves the
\* other's zone, overlay widget and descriptor as they are.
C16_InstancesDoNotInterfere ==
    /\ [](/\ (viewZone # Undefined =>
                /\ ZoneIds(WidgetZones) = {viewZone.id}
                /\ (OverlayAdded => OverlayId(viewZone.id) \in overlays))
          /\ (viewZone2 # Undefined =>
                /\ ZoneIds(SecondZones) = {viewZone2.id}
                /\ OverlayId(viewZone2.id) \in overlays)
          /\ (viewZone = Undefined => WidgetZones = {})
          /\ (viewZone2 = Undefined => SecondZones = {})
          /\ ((viewZone # Undefined /\ viewZone2 # Undefined) =>
                /\ viewZone.id # viewZone2.id
                /\ OverlayId(viewZone.id) # OverlayId(viewZone2.id))
          /\ Cardinality(overlays) =
                1 + (IF viewZone # Undefined /\ OverlayAdded THEN 1 ELSE 0)
                  + (IF viewZone2 # Undefined THEN 1 ELSE 0)
          /\ OtherZone \in zones
          /\ ForeignOverlay \in overlays)
    /\ [][last' \in {"show", "hide", "layout", "dispose"} =>
             /\ UNCHANGED <<viewZone2, toHide2>>
             /\ SecondZones' = SecondZones
             /\ (viewZone2 # Undefined => viewZone2.id \notin RemovedIds(calls'))]_vars
    /\ [][last' \in {"show2", "hide2", "layout2", "dispose2"} =>
             /\ UNCHANGED <<viewZone, toHide>>
             /\ WidgetZones' = WidgetZones
             /\ (viewZone # Undefined => viewZone.id \notin RemovedIds(calls'))]_vars

\* the second instance replaced its zone while the first one stayed shown
C16_Witness ==
    /\ last = "show2"
    /\ Len(Removals(calls)) = 2
    /\ viewZone # Undefined
    /\ viewZone2 # Undefined
    /\ OverlayId(viewZone.id) \in overlays
    /\ OverlayId(viewZone2.id) \in overlays

====
